---- MODULE Spec2Model ----
(***************************************************************************)
(* Delivery service: the routing service (src/router/router.py) and the    *)
(* parcel registry with its HTTP handlers (src/parcels/*.py).              *)
(*                                                                         *)
(* Two specifications share the module.  SpecRouter runs one call of       *)
(* RoutingService.compute_route step by step over a catalog and a request  *)
(* drawn in Init.  SpecParcels runs the registry operations and the        *)
(* endpoint handlers over a registry drawn in Init.                        *)
(* SpecRouterFair is SpecRouter with the call running on to its return.    *)
(* SpecRouterTwice runs the call a second time with the same arguments.    *)
(* SpecThreads runs requests of several threads at once, each cut into the *)
(* steps between which another thread can run.                             *)
(* SpecTimeline is SpecParcels with the timeline rendered last remembered  *)
(* for as long as the history of its parcel stays the same.                *)
(*                                                                         *)
(* Costs are exact multiples of 1/CostScale; the rounding of Python floats *)
(* is not modelled.                                                        *)
(***************************************************************************)
EXTENDS Integers, Sequences, FiniteSets, TLC

VARIABLES
    \* ---- router (src/router/router.py) ----
    catalog,      \* CONSTANT_LEGS: the sequence of legs
    parcel,       \* the ParcelDescription passed to compute_route
    rpc,          \* position inside compute_route / _find_cheapest_route
    pq,           \* the priority queue: set of (total_cost, location, path)
    min_costs,    \* dict location -> best known cost
    visited,      \* set of locations popped and expanded
    current,      \* the entry popped last (current_cost, current_loc, path)
    leg_i,        \* index, in LOCATION_INDEX[current_loc], of the next leg of the for loop
    route,        \* return value of _find_cheapest_route (NotReturned before)
    result,       \* return value of compute_route (NotReturned before)
    first,        \* what a first call with the same arguments returned (NotReturned if none)
    \* ---- parcel service (src/parcels) ----
    parcels,      \* ParcelRegistry._parcels: public_id -> Parcel
    order,        \* insertion order of the keys of _parcels
    now,          \* int(time.time())
    taken,        \* per public_id, the departure requests answered True so far
    response,     \* the last operation, its arguments and what it returned
    threads,      \* per worker thread, the request it runs and where it is in it
    timeline      \* the timeline rendered last, while the history of its parcel is the same

rvars == <<catalog, parcel, rpc, pq, min_costs, visited, current, leg_i, route, result, first>>
pvars == <<parcels, order, now, taken, response, threads, timeline>>
vars == <<rvars, pvars>>

----------------------------------------------------------------------------
(* Bounds *)
MaxLegs == 4        \* legs in a catalog
MaxWeight == 3      \* request weights are 0..MaxWeight
MaxValue == 1       \* request values are -1..MaxValue
MaxEvents == 3      \* events in all histories together
MaxTime == 1        \* the clock runs over 0..MaxTime
MaxThreads == 2     \* requests running at the same time

(* One cost unit is 1/CostScale: 0.005 in the source is 5 here. *)
CostScale == 1000

----------------------------------------------------------------------------
(* Values *)
None == [tag |-> "None"]
NotReturned == [tag |-> "NotReturned"]
Inf == -1                       \* float('inf'); finite costs here are never negative

Locations == {"A", "B", "C", "D"}
\* Python's order on the location strings (second component of the heap tuples)
LocOrd == [l \in Locations |-> CASE l = "A" -> 1 [] l = "B" -> 2 [] l = "C" -> 3 [] l = "D" -> 4]

Leg(id, from, to, max_weight, time, base_cost, weight_factor, value_factor) ==
    [id |-> id, from_location |-> from, to_location |-> to, max_weight |-> max_weight,
     time |-> time, base_cost |-> base_cost, weight_factor |-> weight_factor,
     value_factor |-> value_factor]

\* The legs catalogs are made of: a chain A->B->C->D, a direct and a parallel
\* leg, a cycle back to A, capacities 1..2, costs with fractions, and two
\* parallel legs of the same cost and different times.
LegPool == <<
    Leg("leg_ab",  "A", "B", 2, 2, 50000, 500, 10),
    Leg("leg_bc",  "B", "C", 2, 3, 40000, 500, 5),
    Leg("leg_ac",  "A", "C", 1, 1, 60000, 250, 20),
    Leg("leg_ca",  "C", "A", 2, 2, 0, 0, 0),
    Leg("leg_cd",  "C", "D", 2, 2, 50000, 500, 10),
    Leg("leg_ab2", "A", "B", 1, 3, 40000, 600, 10),
    Leg("leg_ad",  "A", "D", 2, 4, 141000, 999, 0),
    Leg("leg_ab3", "A", "B", 2, 5, 50000, 500, 10)
>>

LegIds == {LegPool[i].id : i \in 1..Len(LegPool)}
\* every catalog: the legs of the pool with the chosen ids, in pool order
Catalogs == {SelectSeq(LegPool, LAMBDA l : l.id \in ids) :
                ids \in {s \in SUBSET LegIds : Cardinality(s) <= MaxLegs}}

ParcelDescription(from, to, weight, value) ==
    [from_location |-> from, to_location |-> to, weight |-> weight, value |-> value]
ParcelDescriptions ==
    {ParcelDescription(f, t, w, v) :
        f \in Locations \cup {""}, t \in Locations \cup {""},
        w \in 0..MaxWeight, v \in (-1)..MaxValue}

----------------------------------------------------------------------------
(* Float arithmetic with infinity *)
FAdd(a, b) == IF a = Inf \/ b = Inf THEN Inf ELSE a + b
FLess(a, b) == IF a = Inf THEN FALSE ELSE IF b = Inf THEN TRUE ELSE a < b

\* int(round(x)): rounds to the nearest integer instead of truncating
TruncRound(x) == IF x >= 0 THEN (x + CostScale \div 2) \div CostScale
                 ELSE -((-x + CostScale \div 2) \div CostScale)

\* int(x) of a finite x: truncation toward zero
Trunc(x) == IF x >= 0 THEN x \div CostScale ELSE -((-x) \div CostScale)

----------------------------------------------------------------------------
(* Leg catalog *)
\* a leg filled to its capacity counted as too small
LegCostStrict(leg, parcel_weight, parcel_value) ==
    IF parcel_weight >= leg.max_weight THEN Inf
    ELSE leg.base_cost + leg.weight_factor * parcel_weight
                       + leg.value_factor * parcel_value

\* Leg.cost
LegCost(leg, parcel_weight, parcel_value) ==
    IF parcel_weight > leg.max_weight THEN Inf
    ELSE leg.base_cost + leg.weight_factor * parcel_weight
                       + leg.value_factor * parcel_value

\* the legs of a location listed backwards in a second call
LOCATION_INDEX_unordered(legs, loc) ==
    LET index == SelectSeq(legs, LAMBDA l : l.from_location = loc)
    IN IF first = NotReturned THEN index
       ELSE [i \in 1..Len(index) |-> index[Len(index) + 1 - i]]

\* LOCATION_INDEX[loc]; a location is a key iff some leg starts there
LOCATION_INDEX(legs, loc) == SelectSeq(legs, LAMBDA l : l.from_location = loc)
InLocationIndex(legs, loc) == \E i \in 1..Len(legs) : legs[i].from_location = loc
ToLocations(legs) == {legs[i].to_location : i \in 1..Len(legs)}

\* the capacity test left out
TooHeavyNever(leg, weight) == FALSE

\* the test of the for loop: "if weight > leg.max_weight: continue"
TooHeavy(leg, weight) == weight > leg.max_weight

----------------------------------------------------------------------------
(* Priority queue of tuples (total_cost, location, path) *)
Entry(cost, loc, path) == [cost |-> cost, loc |-> loc, path |-> path]

\* Python's tuple order on the first two components
EntryLess(e, f) ==
    \/ FLess(e.cost, f.cost)
    \/ e.cost = f.cost /\ LocOrd[e.loc] < LocOrd[f.loc]

\* heapq.heappop: the least entry
HeapMin(q) == CHOOSE e \in q : \A f \in q \ {e} : EntryLess(e, f)

\* only the first path found to a location counts
BetterFirstOnly(total_cost, costs, loc) == loc \notin DOMAIN costs

\* "Check if this is a better path to the next location"
Better(total_cost, costs, loc) ==
    loc \notin DOMAIN costs \/ FLess(total_cost, costs[loc])

----------------------------------------------------------------------------
(* compute_route: totals over the route *)
RECURSIVE TotalCost(_, _, _)
TotalCost(path, weight, value) ==
    IF path = <<>> THEN 0
    ELSE FAdd(TotalCost(SubSeq(path, 1, Len(path) - 1), weight, value),
              LegCost(path[Len(path)], weight, value))

RECURSIVE TotalTime(_)
TotalTime(path) ==
    IF path = <<>> THEN 0
    ELSE TotalTime(SubSeq(path, 1, Len(path) - 1)) + path[Len(path)].time

\* the cost written into both totals
LegListCostTwice(cost, time, legs) ==
    [tag |-> "LegList", cost |-> cost, time |-> cost, legs |-> legs]
LegList(cost, time, legs) == [tag |-> "LegList", cost |-> cost, time |-> time, legs |-> legs]

\* a list of legs returned by _find_cheapest_route
\* the legs last leg first
RouteReversed(path) ==
    [tag |-> "Route", legs |-> [i \in 1..Len(path) |-> path[Len(path) + 1 - i]]]

Route(path) == [tag |-> "Route", legs |-> path]

\* "if not route" in place of "if route is None": the empty route is lost
RouteResultFalsy(r, weight, value) ==
    IF r = None \/ r.legs = <<>> THEN None
    ELSE IF TotalCost(r.legs, weight, value) = Inf THEN None
    ELSE LegList(Trunc(TotalCost(r.legs, weight, value)), TotalTime(r.legs),
                 [i \in 1..Len(r.legs) |-> r.legs[i].id])

\* lines 205-226: None for no route, the LegList otherwise; int(inf) raises
\* OverflowError, which the except clause turns into None
RouteResult(r, weight, value) ==
    IF r = None THEN None
    ELSE IF TotalCost(r.legs, weight, value) = Inf THEN None
    ELSE LegList(Trunc(TotalCost(r.legs, weight, value)), TotalTime(r.legs),
                 [i \in 1..Len(r.legs) |-> r.legs[i].id])

\* only the locations are looked at
InvalidInputsLocationsOnly(p) == p.from_location = "" \/ p.to_location = ""

\* lines 187-188
InvalidInputs(p) ==
    p.from_location = "" \/ p.to_location = "" \/ p.weight <= 0 \/ p.value < 0

\* only the origin is looked up
NotInNetworkSourceOnly(legs, p) == ~InLocationIndex(legs, p.from_location)

\* lines 192-193
NotInNetwork(legs, p) ==
    ~InLocationIndex(legs, p.from_location) \/ p.to_location \notin ToLocations(legs)

----------------------------------------------------------------------------
(* Parcel service: domain values (src/parcels/domain.py) *)

Item(name, value) == [name |-> name, value |-> value]
DomainRoute(leg_ids, cost, time) == [leg_ids |-> leg_ids, cost |-> cost, time |-> time]

PickupEvent(timestamp) == [type |-> "Pickup", timestamp |-> timestamp]
\* the arrival recorded at the end of the route whatever the location given
ArrivalEventAtDestination(timestamp, to) ==
    [type |-> "Arrival", timestamp |-> timestamp, to |-> "CityC"]
ArrivalEvent(timestamp, to) == [type |-> "Arrival", timestamp |-> timestamp, to |-> to]
DepartureEvent(timestamp, leg_id) ==
    [type |-> "Departure", timestamp |-> timestamp, leg_id |-> leg_id]

\* the Parcel dataclass; history holds ParcelHistory.events
Parcel(public_id, length, width, height, weight, items, r, history) ==
    [public_id |-> public_id, length |-> length, width |-> width, height |-> height,
     weight |-> weight, items |-> items, route |-> r, history |-> history]

\* the keyword arguments Parcel.__init__ accepts, and those register_parcel passes
ParcelFields ==
    {"public_id", "length", "width", "height", "weight", "items", "route", "history"}
RegisterKeywords ==
    {"public_id", "from_location", "to_location", "length", "width", "height",
     "weight", "items", "route", "history"}

\* ParcelHistory.pickup / arrival / departure: append one event stamped with the clock
HistoryPickup(history, t) == Append(history, PickupEvent(t))
HistoryArrivalFront(history, t, location) == <<ArrivalEvent(t, location)>> \o history
HistoryArrival(history, t, location) == Append(history, ArrivalEvent(t, location))
HistoryDeparture(history, t, leg_id) == Append(history, DepartureEvent(t, leg_id))

----------------------------------------------------------------------------
(* RouterStubClient (src/parcels/services.py) *)

\* str.lower() on the location names requests use
RequestLocations == {"CityA", "citya", "CityB", "CityC", "UnknownCity"}
Lower(str) == CASE str = "CityA" -> "citya" [] str = "citya" -> "citya"
                [] str = "CityB" -> "cityb" [] str = "CityC" -> "cityc"
                [] str = "UnknownCity" -> "unknowncity"

\* _create_predefined_routes
PredefinedRoutes ==
    (<<"citya", "cityb">> :> DomainRoute(<<"leg-001">>, 100, 60)) @@
    (<<"cityb", "citya">> :> DomainRoute(<<"leg-002">>, 100, 60)) @@
    (<<"citya", "cityc">> :> DomainRoute(<<"leg-003", "leg-004">>, 200, 120)) @@
    (<<"cityc", "citya">> :> DomainRoute(<<"leg-005", "leg-006">>, 200, 120)) @@
    (<<"cityb", "cityc">> :> DomainRoute(<<"leg-007">>, 150, 90)) @@
    (<<"cityc", "cityb">> :> DomainRoute(<<"leg-008">>, 150, 90)) @@
    (<<"citya", "cityd">> :> DomainRoute(<<"leg-009", "leg-010", "leg-011">>, 300, 180)) @@
    (<<"cityd", "citya">> :> DomainRoute(<<"leg-012", "leg-013", "leg-014">>, 300, 180)) @@
    (<<"newyork", "london">> :> DomainRoute(<<"leg-015">>, 500, 420)) @@
    (<<"london", "newyork">> :> DomainRoute(<<"leg-016">>, 500, 420))

\* _calculate_cost: int(base_cost + weight * 10 + value * 0.01), in hundredths
calculate_cost(base_cost, weight, value) ==
    LET total == 100 * base_cost + 1000 * weight + value
    IN IF total >= 0 THEN total \div 100 ELSE -((-total) \div 100)

\* get_route
get_route(from_loc, to_loc, weight, value) ==
    LET route_key == <<Lower(from_loc), Lower(to_loc)>>
    IN IF route_key \notin DOMAIN PredefinedRoutes THEN None
       ELSE LET base_route == PredefinedRoutes[route_key]
            IN [tag |-> "Route",
                route |-> DomainRoute(base_route.leg_ids,
                                      calculate_cost(base_route.cost, weight, value),
                                      base_route.time)]

RECURSIVE SumValues(_)
SumValues(items) == IF items = <<>> THEN 0 ELSE items[1].value + SumValues(Tail(items))

----------------------------------------------------------------------------
(* Requests *)
PublicIds == {"h1", "h2"}
\* hashlib.sha256(private_id).hexdigest() on the private ids requests use;
\* hashing a public id does not give it back
PrivateIds == {"k1", "h1"}
Sha256(private_id) == CASE private_id = "k1" -> "h1" [] private_id = "h1" -> "hh1"

RequestLegIds == {"leg-003", "leg-004"}
ArrivalLocations == {"IntermediateHub", "CityC"}

RegisterRequest(public_id, from, to, weight, items) ==
    [public_id |-> public_id, from_location |-> from, to_location |-> to,
     length |-> 20, width |-> 10, height |-> 10, weight |-> weight, items |-> items]
RegisterRequests ==
    {RegisterRequest("h1", "citya", "CityB", 5, <<Item("Item", 1000)>>),
     RegisterRequest("h2", "CityA", "UnknownCity", 5, <<Item("Item", 1000)>>),
     RegisterRequest("h2", "CityA", "CityB", 0, <<Item("Item", -5)>>)}
\* the registrations the parcels of the initial registry come from
SeedRequests ==
    {RegisterRequest(id, "CityA", "CityC", 5, <<Item("Item", 1000)>>) : id \in PublicIds}

\* the parcel register_parcel builds for a request whose route was found
NewParcel(req, r) ==
    Parcel(req.public_id, req.length, req.width, req.height, req.weight, req.items, r, <<>>)

Response(op, args, ret) == [op |-> op, args |-> args, ret |-> ret]
Returns(tag) == [tag |-> tag]
Raises(exception) == [tag |-> "raise", exception |-> exception]
Http(status, body) == [tag |-> "http", status |-> status, body |-> body]

----------------------------------------------------------------------------
(* ParcelRegistry (src/parcels/storage.py) *)

\* find_by_id: self._parcels.get(public_id)
Registered(public_id) == public_id \in DOMAIN parcels

\* every event counted as a departure
CountAllEvents(history) == Len(history)

\* the first leg whatever the history
first_leg_id(p) == IF p.route.leg_ids = <<>> THEN "None" ELSE p.route.leg_ids[1]

\* _get_next_leg_id
CountDepartures(history) ==
    Cardinality({i \in 1..Len(history) : history[i].type = "Departure"})
_get_next_leg_id(p) ==
    LET departure_count == CountDepartures(p.history)
    IN IF departure_count >= Len(p.route.leg_ids) THEN "None"
       ELSE p.route.leg_ids[departure_count + 1]

\* Parcel.get_next_leg_id (src/parcels/domain.py): None while the last event
\* is a departure, else the leg after the departures counted
get_next_leg_id(p) ==
    IF p.history # <<>> /\ p.history[Len(p.history)].type = "Departure" THEN "None"
    ELSE LET departure_count == CountDepartures(p.history)
         IN IF departure_count >= Len(p.route.leg_ids) THEN "None"
            ELSE p.route.leg_ids[departure_count + 1]

\* _event_to_message
_event_to_message(event) ==
    CASE event.type = "Pickup" -> <<"Parcel picked up at final destination">>
      [] event.type = "Arrival" -> <<"Arrived at ", event.to>>
      [] event.type = "Departure" -> <<"Departed on leg ", event.leg_id>>
      [] OTHER -> <<"Unknown event">>

\* the newest event first
HistoryEntriesNewestFirst(history) ==
    [i \in 1..Len(history) |->
        <<history[Len(history) + 1 - i].timestamp,
          _event_to_message(history[Len(history) + 1 - i])>>]

HistoryEntries(history) ==
    [i \in 1..Len(history) |-> <<history[i].timestamp, _event_to_message(history[i])>>]

\* all events recorded so far (the model stops appending at MaxEvents)
RECURSIVE CountEvents(_)
CountEvents(ids) ==
    IF ids = {} THEN 0
    ELSE LET id == CHOOSE x \in ids : TRUE
         IN Len(parcels[id].history) + CountEvents(ids \ {id})
TotalEvents == CountEvents(DOMAIN parcels)

\* one list of events shared by all parcels
WithHistoryShared(public_id, history) ==
    [id \in DOMAIN parcels |-> [parcels[id] EXCEPT !.history = history]]

\* the append of one event to the history of a stored parcel
WithHistory(public_id, history) ==
    [parcels EXCEPT ![public_id].history = history]

KeepRegistry == UNCHANGED <<parcels, order, now, taken>>

\* the parcel constructed before the route is looked at
RegisterOutcomeConstructFirst(req) ==
    LET r == get_route(req.from_location, req.to_location, req.weight, SumValues(req.items))
    IN IF ~(RegisterKeywords \subseteq ParcelFields) THEN Raises("TypeError")
       ELSE IF r = None THEN None
       ELSE [tag |-> "tuple", cost |-> r.route.cost, time |-> r.route.time,
             parcel |-> NewParcel(req, r.route)]

\* register_parcel: the route is fetched, then Parcel(...) is called with the
\* keywords from_location and to_location, which the dataclass does not have:
\* Python raises TypeError before anything is stored
RegisterOutcome(req) ==
    LET r == get_route(req.from_location, req.to_location, req.weight, SumValues(req.items))
    IN IF r = None THEN None
       ELSE IF ~(RegisterKeywords \subseteq ParcelFields) THEN Raises("TypeError")
       ELSE [tag |-> "tuple", cost |-> r.route.cost, time |-> r.route.time,
             parcel |-> NewParcel(req, r.route)]

\* the id bound to a parcel without a route before the parcel is constructed
StoreBeforeConstruct(req, outcome) ==
    IF outcome.tag \in {"tuple", "raise"}
    THEN /\ parcels' = (req.public_id :>
                           Parcel(req.public_id, req.length, req.width, req.height,
                                  req.weight, req.items, DomainRoute(<<>>, 0, 0), <<>>))
                       @@ parcels
         /\ order' = IF Registered(req.public_id) THEN order ELSE Append(order, req.public_id)
         /\ taken' = [taken EXCEPT ![req.public_id] = 0]
         /\ UNCHANGED now
    ELSE KeepRegistry

\* self._parcels[parcel.public_id] = parcel
Store(req, outcome) ==
    IF outcome.tag = "tuple"
    THEN /\ parcels' = (req.public_id :> outcome.parcel) @@ parcels
         /\ order' = IF Registered(req.public_id) THEN order ELSE Append(order, req.public_id)
         /\ taken' = [taken EXCEPT ![req.public_id] = 0]
         /\ UNCHANGED now
    ELSE KeepRegistry

register_parcel(req) ==
    LET outcome == RegisterOutcome(req)
    IN /\ Store(req, outcome)
       /\ response' = Response("register_parcel", req,
                         IF outcome.tag = "tuple"
                         THEN [tag |-> "tuple", cost |-> outcome.cost, time |-> outcome.time]
                         ELSE outcome)

\* pickup refused until the parcel has left on every leg of its route
pickup_parcel_delivered(public_id) ==
    IF ~Registered(public_id) \/ _get_next_leg_id(parcels[public_id]) # "None"
    THEN /\ response' = Response("pickup_parcel", [id |-> public_id], Returns("False"))
         /\ KeepRegistry
    ELSE /\ TotalEvents < MaxEvents
         /\ parcels' = WithHistory(public_id, Append(parcels[public_id].history, PickupEvent(now)))
         /\ response' = Response("pickup_parcel", [id |-> public_id], Returns("True"))
         /\ UNCHANGED <<order, now, taken>>

pickup_parcel(public_id) ==
    IF ~Registered(public_id)
    THEN /\ response' = Response("pickup_parcel", [id |-> public_id], Returns("False"))
         /\ KeepRegistry
    ELSE /\ TotalEvents < MaxEvents
         /\ parcels' = WithHistory(public_id, Append(parcels[public_id].history, PickupEvent(now)))
         /\ response' = Response("pickup_parcel", [id |-> public_id], Returns("True"))
         /\ UNCHANGED <<order, now, taken>>

\* an unknown id tracked as a parcel without stops or events
track_parcel_unknown_empty(public_id) ==
    /\ KeepRegistry
    /\ response' = Response("track_parcel", [id |-> public_id],
             [tag |-> "tuple",
              total_stops |-> IF Registered(public_id)
                              THEN Len(parcels[public_id].route.leg_ids) ELSE 0,
              history_entries |-> IF Registered(public_id)
                                  THEN HistoryEntries(parcels[public_id].history) ELSE <<>>])

track_parcel(public_id) ==
    /\ KeepRegistry
    /\ IF ~Registered(public_id)
       THEN response' = Response("track_parcel", [id |-> public_id], None)
       ELSE response' = Response("track_parcel", [id |-> public_id],
                [tag |-> "tuple",
                 total_stops |-> Len(parcels[public_id].route.leg_ids),
                 history_entries |-> HistoryEntries(parcels[public_id].history)])

\* the ids whose route begins with leg_id
ParcelsForLegFirst(leg_id) ==
    SelectSeq(order, LAMBDA id : first_leg_id(parcels[id]) = leg_id)

\* get_parcels_for_leg: the ids, in the order of the registry, whose next leg is leg_id
ParcelsForLeg(leg_id) ==
    SelectSeq(order, LAMBDA id : _get_next_leg_id(parcels[id]) = leg_id)

\* the parcels handed out are taken off the registry
get_parcels_for_leg_pop(leg_id) ==
    LET ids == ParcelsForLeg(leg_id)
        kept == {id \in DOMAIN parcels : \A i \in 1..Len(ids) : ids[i] # id}
    IN /\ parcels' = [id \in kept |-> parcels[id]]
       /\ order' = SelectSeq(order, LAMBDA id : id \in kept)
       /\ UNCHANGED <<now, taken>>
       /\ response' = Response("get_parcels_for_leg", [leg_id |-> leg_id],
                               [tag |-> "list", ids |-> ids])

get_parcels_for_leg(leg_id) ==
    /\ KeepRegistry
    /\ response' = Response("get_parcels_for_leg", [leg_id |-> leg_id],
                            [tag |-> "list", ids |-> ParcelsForLeg(leg_id)])

record_departure(public_id, leg_id) ==
    IF ~Registered(public_id)
    THEN /\ response' = Response("record_departure", [id |-> public_id, leg_id |-> leg_id], None)
         /\ KeepRegistry
    ELSE IF _get_next_leg_id(parcels[public_id]) # leg_id
    THEN /\ response' = Response("record_departure", [id |-> public_id, leg_id |-> leg_id],
                                 Returns("False"))
         /\ KeepRegistry
    ELSE /\ TotalEvents < MaxEvents
         /\ parcels' = WithHistory(public_id,
                          Append(parcels[public_id].history, DepartureEvent(now, leg_id)))
         /\ taken' = [taken EXCEPT ![public_id] = @ + 1]
         /\ response' = Response("record_departure", [id |-> public_id, leg_id |-> leg_id],
                                 Returns("True"))
         /\ UNCHANGED <<order, now>>

record_arrival(public_id, location) ==
    IF ~Registered(public_id)
    THEN /\ response' = Response("record_arrival", [id |-> public_id, location |-> location],
                                 Returns("False"))
         /\ KeepRegistry
    ELSE /\ TotalEvents < MaxEvents
         /\ parcels' = WithHistory(public_id,
                          Append(parcels[public_id].history, ArrivalEvent(now, location)))
         /\ response' = Response("record_arrival", [id |-> public_id, location |-> location],
                                 Returns("True"))
         /\ UNCHANGED <<order, now, taken>>

----------------------------------------------------------------------------
(* HTTP handlers (src/parcels/main.py) *)

\* the methods ParcelRegistry has; take_parcel calls registry.get_next_leg_id
RegistryMethods ==
    {"register_parcel", "find_by_id", "get_all_parcels", "pickup_parcel", "track_parcel",
     "get_parcels_for_leg", "record_departure", "record_arrival", "_get_next_leg_id",
     "_event_to_message", "_derive_state_from_history"}

\* the message tells how long ago the event was
to_message_elapsed(event) ==
    CASE event.type = "Pickup" -> <<"Parcel picked up at final destination", now - event.timestamp>>
      [] event.type = "Arrival" -> <<"Arrived at ", event.to, now - event.timestamp>>
      [] event.type = "Departure" -> <<"Departed on leg ", event.leg_id, now - event.timestamp>>

\* ParcelEvent.to_message of the three event classes
to_message(event) ==
    CASE event.type = "Pickup" -> <<"Parcel picked up at final destination">>
      [] event.type = "Arrival" -> <<"Arrived at ", event.to>>
      [] event.type = "Departure" -> <<"Departed on leg ", event.leg_id>>

\* POST /register
api_register_parcel(req) ==
    LET outcome == RegisterOutcome(req)
    IN /\ Store(req, outcome)
       /\ response' = Response("POST /register", req,
             CASE outcome.tag = "None" ->
                    Http(400, [detail |-> "No valid route found for the given origin and destination"])
               [] outcome.tag = "raise" -> Http(500, [detail |-> outcome.exception])
               [] OTHER -> Http(200, [cost |-> outcome.cost, time |-> outcome.time]))

\* a parcel picked up is taken off the registry
api_pickup_parcel_removes(private_id) ==
    LET public_id == Sha256(private_id)
    IN IF ~Registered(public_id)
       THEN /\ response' = Response("POST /pickup", [privateParcelId |-> private_id],
                                    Http(404, [detail |-> "Parcel not found"]))
            /\ KeepRegistry
       ELSE /\ parcels' = [id \in DOMAIN parcels \ {public_id} |-> parcels[id]]
            /\ order' = SelectSeq(order, LAMBDA id : id # public_id)
            /\ response' = Response("POST /pickup", [privateParcelId |-> private_id],
                                    Http(200, [value |-> TRUE]))
            /\ UNCHANGED <<now, taken>>

\* POST /pickup
api_pickup_parcel(private_id) ==
    LET public_id == Sha256(private_id)
    IN IF ~Registered(public_id)
       THEN /\ response' = Response("POST /pickup", [privateParcelId |-> private_id],
                                    Http(404, [detail |-> "Parcel not found"]))
            /\ KeepRegistry
       ELSE /\ TotalEvents < MaxEvents
            /\ parcels' = WithHistory(public_id, HistoryPickup(parcels[public_id].history, now))
            /\ response' = Response("POST /pickup", [privateParcelId |-> private_id],
                                    Http(200, [value |-> TRUE]))
            /\ UNCHANGED <<order, now, taken>>

\* the legs still ahead reported as totalStops
api_track_parcel_remaining(private_id) ==
    LET public_id == Sha256(private_id)
    IN /\ KeepRegistry
       /\ IF ~Registered(public_id)
          THEN response' = Response("POST /track", [privateParcelId |-> private_id],
                                    Http(404, [detail |-> "Parcel not found"]))
          ELSE response' = Response("POST /track", [privateParcelId |-> private_id],
                   Http(200, [totalStops |-> Len(parcels[public_id].route.leg_ids)
                                               - CountDepartures(parcels[public_id].history),
                              history |-> [i \in 1..Len(parcels[public_id].history) |->
                                  [timestamp |-> parcels[public_id].history[i].timestamp,
                                   message |-> to_message(parcels[public_id].history[i])]]]))

\* POST /track
api_track_parcel(private_id) ==
    LET public_id == Sha256(private_id)
    IN /\ KeepRegistry
       /\ IF ~Registered(public_id)
          THEN response' = Response("POST /track", [privateParcelId |-> private_id],
                                    Http(404, [detail |-> "Parcel not found"]))
          ELSE response' = Response("POST /track", [privateParcelId |-> private_id],
                   Http(200, [totalStops |-> Len(parcels[public_id].route.leg_ids),
                              history |-> [i \in 1..Len(parcels[public_id].history) |->
                                  [timestamp |-> parcels[public_id].history[i].timestamp,
                                   message |-> to_message(parcels[public_id].history[i])]]]))

\* GET /parcels/{legId}
api_get_parcels_for_leg(leg_id) ==
    /\ KeepRegistry
    /\ response' = Response("GET /parcels", [legId |-> leg_id],
                            Http(200, [parcelIds |-> ParcelsForLeg(leg_id)]))

\* POST /take/{parcelId}: the lookup of registry.get_next_leg_id raises
\* AttributeError, which the server answers with status 500
take_parcel(public_id, leg_id) ==
    IF ~Registered(public_id)
    THEN /\ response' = Response("POST /take", [parcelId |-> public_id, leg |-> leg_id],
                                 Http(404, [detail |-> "Parcel not found"]))
         /\ KeepRegistry
    ELSE IF "get_next_leg_id" \notin RegistryMethods
    THEN /\ response' = Response("POST /take", [parcelId |-> public_id, leg |-> leg_id],
                                 Http(500, [detail |-> "AttributeError"]))
         /\ KeepRegistry
    ELSE IF _get_next_leg_id(parcels[public_id]) # leg_id
    THEN /\ response' = Response("POST /take", [parcelId |-> public_id, leg |-> leg_id],
                                 Http(400, [detail |-> "Leg does not match"]))
         /\ KeepRegistry
    ELSE /\ TotalEvents < MaxEvents
         /\ parcels' = WithHistory(public_id,
                          HistoryDeparture(parcels[public_id].history, now, leg_id))
         /\ taken' = [taken EXCEPT ![public_id] = @ + 1]
         /\ response' = Response("POST /take", [parcelId |-> public_id, leg |-> leg_id],
                                 Http(200, [value |-> TRUE]))
         /\ UNCHANGED <<order, now>>

\* POST /put/{parcelId}
put_parcel(public_id, location) ==
    IF ~Registered(public_id)
    THEN /\ response' = Response("POST /put", [parcelId |-> public_id, location |-> location],
                                 Http(404, [detail |-> "Parcel not found"]))
         /\ KeepRegistry
    ELSE /\ TotalEvents < MaxEvents
         /\ parcels' = WithHistory(public_id,
                          HistoryArrival(parcels[public_id].history, now, location))
         /\ response' = Response("POST /put", [parcelId |-> public_id, location |-> location],
                                 Http(200, [value |-> TRUE]))
         /\ UNCHANGED <<order, now, taken>>

\* the clock advances between requests
Tick ==
    /\ now < MaxTime
    /\ now' = now + 1
    /\ UNCHANGED <<parcels, order, taken, response>>

----------------------------------------------------------------------------
(* Parcel service: the registry and its requests *)

\* register_parcel stores nothing (see RegisterOutcome), so the parcels of the
\* registry are drawn here: each is the parcel its registration request
\* describes, with the route of the router client and an empty history
SeedParcels(id) ==
    {NewParcel(req, get_route(req.from_location, req.to_location, req.weight,
                              SumValues(req.items)).route) :
        req \in {q \in SeedRequests :
                    /\ q.public_id = id
                    /\ get_route(q.from_location, q.to_location, q.weight,
                                 SumValues(q.items)) # None}}

Registries ==
    UNION {{f \in [S -> UNION {SeedParcels(id) : id \in S}] :
                \A id \in S : f[id] \in SeedParcels(id)} : S \in SUBSET PublicIds}

\* the seeds are inserted in the order of their ids
SeedOrder(S) == SelectSeq(<<"h1", "h2">>, LAMBDA id : id \in S)

\* the worker threads of the server's thread pool
Threads == 1..MaxThreads
Thread(pc, op, args, local, ret) ==
    [pc |-> pc, op |-> op, args |-> args, local |-> local, ret |-> ret]
NoRequests == [t \in Threads |-> Thread("idle", "none", <<>>, "None", NotReturned)]

\* no timeline rendered yet
NoTimelines == NotReturned
Rendered(id, entries) == [tag |-> "Rendered", id |-> id, entries |-> entries]
\* the entries rendered first for the parcel id, and whether rendered again since
Remembered(id, entries, again) ==
    [tag |-> "Remembered", id |-> id, entries |-> entries, again |-> again]

\* the timeline a step renders, as (timestamp, message) pairs: what
\* track_parcel returns as history_entries, what POST /track answers as
\* history; NotReturned when the step renders none
RenderedNow ==
    IF now' # now THEN NotReturned
    ELSE IF response'.op = "track_parcel" /\ response'.ret # None
         THEN Rendered(response'.args.id, response'.ret.history_entries)
    ELSE IF response'.op = "POST /track" /\ response'.ret.status = 200
         THEN Rendered(Sha256(response'.args.privateParcelId),
                       [i \in 1..Len(response'.ret.body.history) |->
                          <<response'.ret.body.history[i].timestamp,
                            response'.ret.body.history[i].message>>])
    ELSE NotReturned

\* the timeline remembered is of the same parcel as the one rendered now
SameParcel == /\ timeline # NotReturned /\ RenderedNow # NotReturned
              /\ timeline.id = RenderedNow.id

\* a timeline rendered is remembered until the history of its parcel changes
\* or the timeline of another parcel is rendered
Remember ==
    timeline' =
        IF SameParcel THEN Remembered(timeline.id, timeline.entries, TRUE)
        ELSE IF RenderedNow # NotReturned
             THEN Remembered(RenderedNow.id, RenderedNow.entries, FALSE)
        ELSE IF /\ timeline # NotReturned
                /\ timeline.id \in DOMAIN parcels'
                /\ parcels'[timeline.id].history = parcels[timeline.id].history
             THEN timeline
        ELSE NotReturned

ParcelsIdle ==
    /\ parcels = <<>> /\ order = <<>> /\ now = 0
    /\ taken = <<>> /\ response = Response("none", <<>>, NotReturned)
    /\ threads = NoRequests
    /\ timeline = NoTimelines

ParcelsNext ==
    \/ \E req \in RegisterRequests : register_parcel(req)
    \/ \E id \in PublicIds : pickup_parcel(id)
    \/ \E id \in PublicIds : track_parcel(id)
    \/ \E leg_id \in RequestLegIds : get_parcels_for_leg(leg_id)
    \/ \E id \in PublicIds, leg_id \in RequestLegIds : record_departure(id, leg_id)
    \/ \E id \in PublicIds, location \in ArrivalLocations : record_arrival(id, location)
    \/ \E req \in RegisterRequests : api_register_parcel(req)
    \/ \E private_id \in PrivateIds : api_pickup_parcel(private_id)
    \/ \E private_id \in PrivateIds : api_track_parcel(private_id)
    \/ \E leg_id \in RequestLegIds : api_get_parcels_for_leg(leg_id)
    \/ \E id \in PublicIds, leg_id \in RequestLegIds : take_parcel(id, leg_id)
    \/ \E id \in PublicIds, location \in ArrivalLocations : put_parcel(id, location)
    \/ Tick

----------------------------------------------------------------------------
(* Router: one call of compute_route *)
RouterIdle ==
    /\ catalog = <<>>
    /\ parcel = ParcelDescription("", "", 0, 0)
    /\ rpc = "off"
    /\ pq = {} /\ min_costs = <<>> /\ visited = {}
    /\ current = Entry(0, "", <<>>) /\ leg_i = 0
    /\ route = NotReturned /\ result = NotReturned
    /\ first = NotReturned

\* compute_route up to the first iteration of the while loop
\* the search started with no cost recorded for the origin
ComputeRouteNoStartCost ==
    /\ rpc = "call"
    /\ UNCHANGED <<catalog, parcel, current, leg_i>>
    /\ IF InvalidInputs(parcel) \/ NotInNetwork(catalog, parcel)
       THEN /\ result' = None /\ rpc' = "done"
            /\ UNCHANGED <<pq, min_costs, visited, route>>
       ELSE /\ pq' = {Entry(0, parcel.from_location, <<>>)}
            /\ IF parcel.from_location = parcel.to_location
               THEN /\ route' = Route(<<>>)
                    /\ result' = RouteResult(Route(<<>>), parcel.weight, parcel.value)
                    /\ rpc' = "done"
                    /\ UNCHANGED <<min_costs, visited>>
               ELSE /\ min_costs' = <<>>
                    /\ visited' = {}
                    /\ rpc' = "loop"
                    /\ UNCHANGED <<route, result>>

ComputeRoute ==
    /\ rpc = "call"
    /\ UNCHANGED <<catalog, parcel, current, leg_i>>
    /\ IF InvalidInputs(parcel) \/ NotInNetwork(catalog, parcel)
       THEN /\ result' = None /\ rpc' = "done"
            /\ UNCHANGED <<pq, min_costs, visited, route>>
       ELSE /\ pq' = {Entry(0, parcel.from_location, <<>>)}
            /\ IF parcel.from_location = parcel.to_location
               THEN /\ route' = Route(<<>>)
                    /\ result' = RouteResult(Route(<<>>), parcel.weight, parcel.value)
                    /\ rpc' = "done"
                    /\ UNCHANGED <<min_costs, visited>>
               ELSE /\ min_costs' = (parcel.from_location :> 0)
                    /\ visited' = {}
                    /\ rpc' = "loop"
                    /\ UNCHANGED <<route, result>>

\* the least entry read and left in the queue
PopKeep ==
    /\ rpc = "loop"
    /\ UNCHANGED <<catalog, parcel, min_costs>>
    /\ IF pq = {}
       THEN /\ route' = None
            /\ result' = RouteResult(None, parcel.weight, parcel.value)
            /\ rpc' = "done"
            /\ UNCHANGED <<pq, visited, current, leg_i>>
       ELSE LET e == HeapMin(pq) IN
            /\ pq' = pq
            /\ current' = e
            /\ IF /\ e.loc \in visited
                  /\ FLess(IF e.loc \in DOMAIN min_costs THEN min_costs[e.loc] ELSE Inf, e.cost)
               THEN UNCHANGED <<visited, leg_i, rpc, route, result>>
               ELSE /\ visited' = visited \cup {e.loc}
                    /\ IF e.loc = parcel.to_location
                       THEN /\ route' = Route(e.path)
                            /\ result' = RouteResult(Route(e.path), parcel.weight, parcel.value)
                            /\ rpc' = "done"
                            /\ UNCHANGED leg_i
                       ELSE /\ UNCHANGED <<route, result>>
                            /\ IF InLocationIndex(catalog, e.loc)
                               THEN rpc' = "relax" /\ leg_i' = 1
                               ELSE UNCHANGED <<rpc, leg_i>>

\* one iteration of "while pq" up to the for loop
Pop ==
    /\ rpc = "loop"
    /\ UNCHANGED <<catalog, parcel, min_costs>>
    /\ IF pq = {}
       THEN /\ route' = None
            /\ result' = RouteResult(None, parcel.weight, parcel.value)
            /\ rpc' = "done"
            /\ UNCHANGED <<pq, visited, current, leg_i>>
       ELSE LET e == HeapMin(pq) IN
            /\ pq' = pq \ {e}
            /\ current' = e
            /\ IF /\ e.loc \in visited
                  /\ FLess(IF e.loc \in DOMAIN min_costs THEN min_costs[e.loc] ELSE Inf, e.cost)
               THEN UNCHANGED <<visited, leg_i, rpc, route, result>>
               ELSE /\ visited' = visited \cup {e.loc}
                    /\ IF e.loc = parcel.to_location
                       THEN /\ route' = Route(e.path)
                            /\ result' = RouteResult(Route(e.path), parcel.weight, parcel.value)
                            /\ rpc' = "done"
                            /\ UNCHANGED leg_i
                       ELSE /\ UNCHANGED <<route, result>>
                            /\ IF InLocationIndex(catalog, e.loc)
                               THEN rpc' = "relax" /\ leg_i' = 1
                               ELSE UNCHANGED <<rpc, leg_i>>

\* one iteration of "for leg in LOCATION_INDEX[current_loc]"
Relax ==
    /\ rpc = "relax"
    /\ UNCHANGED <<catalog, parcel, visited, current, route, result>>
    /\ LET legs == LOCATION_INDEX(catalog, current.loc)
           leg == legs[leg_i]
           total_cost == FAdd(current.cost, LegCost(leg, parcel.weight, parcel.value))
       IN /\ IF ~TooHeavy(leg, parcel.weight) /\ Better(total_cost, min_costs, leg.to_location)
             THEN /\ min_costs' = (leg.to_location :> total_cost) @@ min_costs
                  /\ pq' = pq \cup {Entry(total_cost, leg.to_location, Append(current.path, leg))}
             ELSE UNCHANGED <<pq, min_costs>>
          /\ IF leg_i < Len(legs)
             THEN leg_i' = leg_i + 1 /\ UNCHANGED rpc
             ELSE rpc' = "loop" /\ UNCHANGED leg_i

RouterNext == ComputeRoute \/ Pop \/ Relax

----------------------------------------------------------------------------
(* Specifications *)
\* the routing service alone: the parcels service holds nothing
RouterInit ==
    /\ catalog \in Catalogs
    /\ parcel \in ParcelDescriptions
    /\ rpc = "call"
    /\ pq = {} /\ min_costs = <<>> /\ visited = {}
    /\ current = Entry(0, "", <<>>) /\ leg_i = 0
    /\ route = NotReturned /\ result = NotReturned
    /\ first = NotReturned
    /\ ParcelsIdle

SpecRouter == RouterInit /\ [][RouterNext /\ UNCHANGED <<pvars, first>>]_vars

\* the call runs on: compute_route is sequential code, each step is followed
\* by the next one
SpecRouterFair == SpecRouter /\ WF_vars(RouterNext /\ UNCHANGED <<pvars, first>>)

\* compute_route called a second time with the same arguments over the same
\* catalog, what the first call returned kept aside
CallAgain ==
    /\ rpc = "done" /\ first = NotReturned
    /\ first' = [tag |-> "First", route |-> route, result |-> result]
    /\ rpc' = "call"
    /\ pq' = {} /\ min_costs' = <<>> /\ visited' = {}
    /\ current' = Entry(0, "", <<>>) /\ leg_i' = 0
    /\ route' = NotReturned /\ result' = NotReturned
    /\ UNCHANGED <<catalog, parcel>>

RouterTwiceNext ==
    \/ ComputeRoute /\ UNCHANGED first
    \/ Pop /\ UNCHANGED first
    \/ Relax /\ UNCHANGED first
    \/ CallAgain

SpecRouterTwice == RouterInit /\ [][RouterTwiceNext /\ UNCHANGED pvars]_vars

\* the parcels service alone: no routing request is in progress
ParcelsInit ==
    /\ parcels \in Registries
    /\ order = SeedOrder(DOMAIN parcels)
    /\ now = 0
    /\ taken = [id \in PublicIds |-> 0]
    /\ response = Response("none", <<>>, NotReturned)
    /\ threads = NoRequests
    /\ timeline = NoTimelines
    /\ RouterIdle

SpecParcels == ParcelsInit /\ [][ParcelsNext /\ UNCHANGED <<rvars, threads, timeline>>]_vars

(* The registry with the timelines remembered *)
SpecTimeline == ParcelsInit /\ [][ParcelsNext /\ Remember /\ UNCHANGED <<rvars, threads>>]_vars

----------------------------------------------------------------------------
(* Concurrent requests: the handlers are plain functions, which the server  *)
(* runs in the threads of a pool; ParcelRegistry takes no lock.  A request  *)
(* is cut where another thread can run between two accesses to the registry *)

ThreadRequests ==
    {[op |-> "record_departure", args |-> [id |-> id, leg_id |-> leg_id]] :
        id \in PublicIds, leg_id \in RequestLegIds}
    \cup {[op |-> "record_arrival", args |-> [id |-> id, location |-> location]] :
        id \in PublicIds, location \in ArrivalLocations}
    \cup {[op |-> "register_parcel", args |-> req] : req \in RegisterRequests}
    \cup {[op |-> "find_by_id", args |-> [id |-> id]] : id \in PublicIds}
    \cup {[op |-> "get_parcels_for_leg", args |-> [leg_id |-> leg_id]] : leg_id \in RequestLegIds}
    \cup {[op |-> "POST /take", args |-> [id |-> id, leg_id |-> leg_id]] :
        id \in PublicIds, leg_id \in RequestLegIds}
    \cup {[op |-> "POST /put", args |-> [id |-> id, location |-> location]] :
        id \in PublicIds, location \in ArrivalLocations}

FirstStep(op) ==
    CASE op = "register_parcel" -> "get_route"
      [] op = "get_parcels_for_leg" -> "get_all_parcels"
      [] OTHER -> "find_by_id"

\* the thread moves on: its position, its local variable, its return value
Goes(t, pc, local, ret) ==
    threads' = [threads EXCEPT ![t] = Thread(pc, @.op, @.args, local, ret)]

\* a thread of the pool takes a request
Call(t) ==
    /\ threads[t].pc = "idle"
    /\ \E req \in ThreadRequests :
          threads' = [threads EXCEPT ![t] =
                         Thread(FirstStep(req.op), req.op, req.args, "None", NotReturned)]
    /\ KeepRegistry

\* parcel = self.find_by_id(parcel_id), and the return when it is None
thread_find_by_id(t) ==
    LET th == threads[t]
        found == Registered(th.args.id)
    IN /\ th.pc = "find_by_id"
       /\ KeepRegistry
       /\ CASE th.op = "find_by_id" ->
                 Goes(t, "done", "None", IF found THEN parcels[th.args.id] ELSE None)
            [] th.op = "record_departure" ->
                 IF found THEN Goes(t, "get_next_leg_id", th.args.id, NotReturned)
                 ELSE Goes(t, "done", "None", None)
            [] th.op = "record_arrival" ->
                 IF found THEN Goes(t, "append", th.args.id, NotReturned)
                 ELSE Goes(t, "done", "None", Returns("False"))
            [] th.op = "POST /take" ->
                 IF found THEN Goes(t, "get_next_leg_id", th.args.id, NotReturned)
                 ELSE Goes(t, "done", "None", Http(404, [detail |-> "Parcel not found"]))
            [] th.op = "POST /put" ->
                 IF found THEN Goes(t, "append", th.args.id, NotReturned)
                 ELSE Goes(t, "done", "None", Http(404, [detail |-> "Parcel not found"]))

\* the next expected leg is read and compared with the leg of the request
thread_get_next_leg_id(t) ==
    LET th == threads[t]
    IN /\ th.pc = "get_next_leg_id"
       /\ KeepRegistry
       /\ IF th.op = "POST /take" /\ "get_next_leg_id" \notin RegistryMethods
          THEN Goes(t, "done", th.local, Http(500, [detail |-> "AttributeError"]))
          ELSE IF _get_next_leg_id(parcels[th.local]) # th.args.leg_id
          THEN Goes(t, "done", th.local,
                    IF th.op = "POST /take"
                    THEN Http(400, [detail |-> "Leg does not match"]) ELSE Returns("False"))
          ELSE Goes(t, "append", th.local, NotReturned)

\* the event is built and appended to the events of the parcel found
thread_append(t) ==
    LET th == threads[t]
        history == parcels[th.local].history
    IN /\ th.pc = "append"
       /\ parcels' = WithHistory(th.local,
             CASE th.op = "record_departure" -> Append(history, DepartureEvent(now, th.args.leg_id))
               [] th.op = "record_arrival" -> Append(history, ArrivalEvent(now, th.args.location))
               [] th.op = "POST /take" -> HistoryDeparture(history, now, th.args.leg_id)
               [] th.op = "POST /put" -> HistoryArrival(history, now, th.args.location))
       /\ taken' = IF th.op \in {"record_departure", "POST /take"}
                   THEN [taken EXCEPT ![th.local] = @ + 1] ELSE taken
       /\ Goes(t, "done", th.local,
               IF th.op \in {"POST /take", "POST /put"}
               THEN Http(200, [value |-> TRUE]) ELSE Returns("True"))
       /\ UNCHANGED <<order, now>>

\* route = self.router.get_route(...), and the return when it is None
thread_get_route(t) ==
    LET th == threads[t]
        r == get_route(th.args.from_location, th.args.to_location, th.args.weight,
                       SumValues(th.args.items))
    IN /\ th.pc = "get_route"
       /\ KeepRegistry
       /\ IF r = None THEN Goes(t, "done", "None", None)
          ELSE Goes(t, "Parcel", r, NotReturned)

\* parcel = Parcel(...); self._parcels[parcel.public_id] = parcel
thread_store(t) ==
    LET th == threads[t]
        outcome == RegisterOutcome(th.args)
    IN /\ th.pc = "Parcel"
       /\ Store(th.args, outcome)
       /\ Goes(t, "done", th.local,
               IF outcome.tag = "tuple"
               THEN [tag |-> "tuple", cost |-> outcome.cost, time |-> outcome.time]
               ELSE outcome)

\* get_all_parcels: list(self._parcels.values())
thread_get_all_parcels(t) ==
    /\ threads[t].pc = "get_all_parcels"
    /\ KeepRegistry
    /\ Goes(t, "for", [todo |-> order, result |-> <<>>], NotReturned)

\* one iteration of the loop of get_parcels_for_leg, or its return
thread_for_parcel(t) ==
    LET th == threads[t]
    IN /\ th.pc = "for"
       /\ KeepRegistry
       /\ IF th.local.todo = <<>>
          THEN Goes(t, "done", th.local, [tag |-> "list", ids |-> th.local.result])
          ELSE LET id == Head(th.local.todo)
               IN Goes(t, "for",
                       [todo |-> Tail(th.local.todo),
                        result |-> IF _get_next_leg_id(parcels[id]) = th.args.leg_id
                                   THEN Append(th.local.result, id) ELSE th.local.result],
                       NotReturned)

ThreadsNext ==
    \/ \E t \in Threads : Call(t)
    \/ \E t \in Threads : thread_find_by_id(t)
    \/ \E t \in Threads : thread_get_next_leg_id(t)
    \/ \E t \in Threads : thread_append(t)
    \/ \E t \in Threads : thread_get_route(t)
    \/ \E t \in Threads : thread_store(t)
    \/ \E t \in Threads : thread_get_all_parcels(t)
    \/ \E t \in Threads : thread_for_parcel(t)
    \/ Tick /\ UNCHANGED threads

SpecThreads == ParcelsInit /\ [][ThreadsNext /\ UNCHANGED <<rvars, response, timeline>>]_vars

----------------------------------------------------------------------------
(* Reference notions for the routing claims *)

\* the legs of the catalog that can carry the weight
AdmissibleLegs(legs, weight) ==
    {legs[i] : i \in {j \in 1..Len(legs) : legs[j].max_weight >= weight}}

\* where a path of legs that starts at origin ends
PathEnd(origin, path) == IF path = <<>> THEN origin ELSE path[Len(path)].to_location

\* all chains of at most k admissible legs that start at origin (the empty one included)
RECURSIVE PathsFrom(_, _, _)
PathsFrom(E, origin, k) ==
    IF k = 0 THEN {<<>>}
    ELSE LET P == PathsFrom(E, origin, k - 1)
             ext == {pe \in {q \in P : Len(q) = k - 1} \X E :
                        pe[2].from_location = PathEnd(origin, pe[1])}
         IN P \cup {Append(pe[1], pe[2]) : pe \in ext}

\* the admissible paths of the request: from its origin to its destination
AdmissiblePaths ==
    {p \in PathsFrom(AdmissibleLegs(catalog, parcel.weight), parcel.from_location, MaxLegs + 1) :
        PathEnd(parcel.from_location, p) = parcel.to_location}

\* sum of the legs' costs, first leg first
RECURSIVE PathCost(_)
PathCost(path) ==
    IF path = <<>> THEN 0
    ELSE path[1].base_cost + path[1].weight_factor * parcel.weight
         + path[1].value_factor * parcel.value + PathCost(Tail(path))

RECURSIVE PathTime(_)
PathTime(path) == IF path = <<>> THEN 0 ELSE path[1].time + PathTime(Tail(path))

\* the legs of the catalog named by a list of leg ids
LegById(id) == CHOOSE l \in {catalog[i] : i \in 1..Len(catalog)} : l.id = id
LegsOf(ids) == [i \in 1..Len(ids) |-> LegById(ids[i])]

Returned == rpc = "done"
ValidRequest == parcel.from_location # "" /\ parcel.to_location # ""
                /\ parcel.weight > 0 /\ parcel.value >= 0
LegsLeaving(loc) == {catalog[i] : i \in {j \in 1..Len(catalog) : catalog[j].from_location = loc}}

----------------------------------------------------------------------------
(* Claims on the routing service, checked under SpecRouter *)

\* C1: for origin # destination, weight > 0 and value >= 0, when some path of
\* legs that can all carry the weight leads from origin to destination,
\* compute_route returns a route, and the summed cost of its legs is at most
\* the summed cost of every such path.
C1_CheapestRoute ==
    (Returned /\ ValidRequest /\ parcel.from_location # parcel.to_location)
        => \A p \in AdmissiblePaths :
              /\ result.tag = "LegList"
              /\ PathCost(LegsOf(result.legs)) <= PathCost(p)

\* a route of two legs or more was returned although a dearer admissible path exists
C1_Witness ==
    /\ Returned /\ ValidRequest /\ result.tag = "LegList"
    /\ Len(result.legs) >= 2
    /\ \E p \in AdmissiblePaths : PathCost(p) > PathCost(LegsOf(result.legs))

\* C2: every leg of a route returned by _find_cheapest_route / compute_route
\* can carry the weight, and a step that writes min_costs inside the for loop
\* does so through a leg that can carry the weight.
C2_RouteLegsAdmissible ==
    /\ route.tag = "Route" =>
          \A i \in 1..Len(route.legs) : route.legs[i].max_weight >= parcel.weight
    /\ result.tag = "LegList" =>
          \A i \in 1..Len(result.legs) : LegById(result.legs[i]).max_weight >= parcel.weight

C2_RelaxAdmissible ==
    (rpc = "relax" /\ min_costs' # min_costs) =>
        LOCATION_INDEX(catalog, current.loc)[leg_i].max_weight >= parcel.weight

C2_NeverInadmissible == [](C2_RouteLegsAdmissible) /\ [][C2_RelaxAdmissible]_vars

\* a route of two legs was returned while a leg too small for the parcel led
\* from an expanded location straight to the destination
C2_Witness ==
    /\ Returned /\ route.tag = "Route" /\ Len(route.legs) >= 2
    /\ \E i \in 1..Len(catalog) :
          /\ catalog[i].max_weight < parcel.weight
          /\ catalog[i].from_location \in visited
          /\ catalog[i].to_location = parcel.to_location

\* C7 as stated: origin = destination = L, L non-empty, weight > 0, value >= 0
\* always gives the empty route with cost 0 and time 0.
C7_Original ==
    (Returned /\ ValidRequest /\ parcel.from_location = parcel.to_location)
        => result = LegList(0, 0, <<>>)

\* C7 amended: the same when L is the origin of some leg and the destination
\* of some leg of the catalog.
C7_SameLocationInNetwork ==
    (/\ Returned /\ ValidRequest /\ parcel.from_location = parcel.to_location
     /\ \E i \in 1..Len(catalog) : catalog[i].from_location = parcel.from_location
     /\ \E i \in 1..Len(catalog) : catalog[i].to_location = parcel.to_location)
        => result = LegList(0, 0, <<>>)

\* the empty route was returned for origin = destination
C7_Witness ==
    /\ Returned /\ ValidRequest /\ parcel.from_location = parcel.to_location
    /\ result = LegList(0, 0, <<>>)

\* C8: compute_route returns None whenever no path of legs that can carry the
\* weight (the empty path from a location to itself included) leads from
\* origin to destination, and whenever no leg of the catalog ends at the
\* destination.
C8_NoRouteIsNone ==
    (Returned /\ (AdmissiblePaths = {} \/
                  \A i \in 1..Len(catalog) : catalog[i].to_location # parcel.to_location))
        => result = None

\* the search ran dry: the destination is a leg's end, legs leave the origin,
\* and a leg into the destination is too small for the parcel
C8_Witness ==
    /\ Returned /\ ValidRequest /\ result = None /\ route = None
    /\ Cardinality(visited) >= 2
    /\ \E i \in 1..Len(catalog) :
          catalog[i].to_location = parcel.to_location /\ catalog[i].max_weight < parcel.weight

\* C9 as stated: when the weight exceeds the max_weight of every leg that
\* leaves the origin, compute_route returns None.
C9_Original ==
    (Returned /\ \A l \in LegsLeaving(parcel.from_location) : parcel.weight > l.max_weight)
        => result = None

\* C9 amended: the same for origin # destination; the search returns no route.
C9_TooHeavyAtOrigin ==
    (/\ Returned /\ parcel.from_location # parcel.to_location
     /\ \A l \in LegsLeaving(parcel.from_location) : parcel.weight > l.max_weight)
        => result = None /\ route.tag # "Route"

\* the search was started, found every leg out of the origin too small and returned None
C9_Witness ==
    /\ Returned /\ ValidRequest /\ result = None /\ route = None
    /\ LegsLeaving(parcel.from_location) # {}
    /\ \A l \in LegsLeaving(parcel.from_location) : parcel.weight > l.max_weight

\* C10: the cost of a returned route is the sum of leg.cost(weight, value)
\* over exactly its legs, truncated toward zero (costs in 1/CostScale units).
C10_CostIsTruncatedSum ==
    result.tag = "LegList" =>
        LET total == PathCost(LegsOf(result.legs))
        IN IF total >= 0
           THEN result.cost * CostScale <= total /\ total < (result.cost + 1) * CostScale
           ELSE (result.cost - 1) * CostScale < total /\ total <= result.cost * CostScale

\* a route of two legs whose summed cost is not a whole number
C10_Witness ==
    /\ result.tag = "LegList" /\ Len(result.legs) >= 2
    /\ PathCost(LegsOf(result.legs)) % CostScale >= CostScale \div 2

----------------------------------------------------------------------------
(* Reference notions for the parcel claims *)

\* the leg ids of the Departure events of a history, in order
RECURSIVE DepartureLegs(_)
DepartureLegs(history) ==
    IF history = <<>> THEN <<>>
    ELSE IF history[1].type = "Departure"
         THEN <<history[1].leg_id>> \o DepartureLegs(Tail(history))
         ELSE DepartureLegs(Tail(history))

IsPrefix(a, b) == Len(a) <= Len(b) /\ \A i \in 1..Len(a) : a[i] = b[i]

HasEvent(history, type) == \E i \in 1..Len(history) : history[i].type = type

\* the step is the given operation with the given arguments
IsCall(op, args) == now' = now /\ response'.op = op /\ response'.args = args

----------------------------------------------------------------------------
(* Claims on the parcel service, checked under SpecParcels *)

\* C3 as stated: a departure request on a registered parcel naming a leg other
\* than the next expected one is rejected -- record_departure returns False,
\* POST /take answers 400 -- and the parcel's history stays as it was.
C3_WrongLegRejected ==
    [][\A id \in PublicIds, leg_id \in RequestLegIds :
          (Registered(id) /\ _get_next_leg_id(parcels[id]) # leg_id) =>
             /\ IsCall("record_departure", [id |-> id, leg_id |-> leg_id]) =>
                   /\ response'.ret = Returns("False")
                   /\ parcels'[id].history = parcels[id].history
             /\ IsCall("POST /take", [parcelId |-> id, leg |-> leg_id]) =>
                   /\ response'.ret.status = 400
                   /\ parcels'[id].history = parcels[id].history]_vars

\* C4: for every registered parcel the leg ids of its Departure events, in
\* order, are a prefix of its route's leg_ids.
C4_DeparturesPrefixOfRoute ==
    \A id \in DOMAIN parcels :
        IsPrefix(DepartureLegs(parcels[id].history), parcels[id].route.leg_ids)

\* a parcel has departed on every leg of a route of two legs, with another event in between
C4_Witness ==
    \E id \in DOMAIN parcels :
        /\ Len(parcels[id].route.leg_ids) >= 2
        /\ DepartureLegs(parcels[id].history) = parcels[id].route.leg_ids
        /\ Len(parcels[id].history) > Len(parcels[id].route.leg_ids)

\* C5: after N departure requests answered True on a parcel whose route has L
\* legs, the next expected leg is the route's leg at index N when N < L and
\* none when N >= L, whatever Arrival or Pickup events the history holds.
C5_NextLegAfterDepartures ==
    \A id \in DOMAIN parcels :
        _get_next_leg_id(parcels[id]) =
            IF taken[id] < Len(parcels[id].route.leg_ids)
            THEN parcels[id].route.leg_ids[taken[id] + 1]
            ELSE "None"

\* one departure, an Arrival before it and a Pickup after it: the second leg is expected
C5_Witness ==
    \E id \in DOMAIN parcels :
        /\ taken[id] = 1
        /\ Len(parcels[id].history) = 3
        /\ parcels[id].history[1].type = "Arrival"
        /\ parcels[id].history[3].type = "Pickup"
        /\ _get_next_leg_id(parcels[id]) = parcels[id].route.leg_ids[2]

\* C6 as stated: in every history a Pickup event, if present, is the last
\* event; nothing is appended after a pickup.
C6_PickupIsLast ==
    \A id \in DOMAIN parcels :
        \A i \in 1..Len(parcels[id].history) :
            parcels[id].history[i].type = "Pickup" => i = Len(parcels[id].history)

----------------------------------------------------------------------------
(* Registration *)

\* the router client has a route for the request
Routable(req) == <<Lower(req.from_location), Lower(req.to_location)>> \in DOMAIN PredefinedRoutes
RouteFor(req) == get_route(req.from_location, req.to_location, req.weight,
                           SumValues(req.items)).route

\* C11: register_parcel (and POST /register) for a request the router can
\* route returns the route's cost and time and stores, under the request's
\* id, a parcel with that route and an empty history.
C11_RegisterStores ==
    [][\A req \in RegisterRequests :
          Routable(req) =>
             /\ IsCall("register_parcel", req) =>
                   /\ response'.ret = [tag |-> "tuple", cost |-> RouteFor(req).cost,
                                                        time |-> RouteFor(req).time]
                   /\ req.public_id \in DOMAIN parcels'
                   /\ parcels'[req.public_id].route = RouteFor(req)
                   /\ parcels'[req.public_id].history = <<>>
             /\ IsCall("POST /register", req) =>
                   /\ response'.ret = Http(200, [cost |-> RouteFor(req).cost,
                                                 time |-> RouteFor(req).time])
                   /\ req.public_id \in DOMAIN parcels'
                   /\ parcels'[req.public_id].route = RouteFor(req)
                   /\ parcels'[req.public_id].history = <<>>]_vars

\* C12: when the router has no route for the request, register_parcel returns
\* None (POST /register answers 400) and the registry is unchanged.
C12_NoRouteStoresNothing ==
    [][\A req \in RegisterRequests :
          ~Routable(req) =>
             /\ IsCall("register_parcel", req) =>
                   (response'.ret = None /\ parcels' = parcels /\ order' = order)
             /\ IsCall("POST /register", req) =>
                   (response'.ret.status = 400 /\ parcels' = parcels /\ order' = order)]_vars

\* POST /register was answered 400 for an id the registry does not hold while
\* another parcel had events in its history
C12_Witness ==
    /\ response.op = "POST /register" /\ ~Routable(response.args)
    /\ response.ret.status = 400
    /\ ~Registered(response.args.public_id)
    /\ \E id \in DOMAIN parcels : Len(parcels[id].history) >= 2

----------------------------------------------------------------------------
(* Leg queues *)

\* the leg a parcel waits for, from the departures answered True so far
ExpectedLeg(id) ==
    IF taken[id] < Len(parcels[id].route.leg_ids)
    THEN parcels[id].route.leg_ids[taken[id] + 1] ELSE "None"
Awaiting(leg_id) == {id \in DOMAIN parcels : ExpectedLeg(id) = leg_id}
SeqToSet(ids) == {ids[i] : i \in 1..Len(ids)}
InQueue(id, leg_id) == id \in SeqToSet(ParcelsForLeg(leg_id))

\* C13: get_parcels_for_leg(leg_id) (and GET /parcels/{legId}) returns each
\* registered parcel whose next expected leg is leg_id once, and no other id.
C13_LegQueueExact ==
    [][\A leg_id \in RequestLegIds :
          /\ IsCall("get_parcels_for_leg", [leg_id |-> leg_id]) =>
                /\ SeqToSet(response'.ret.ids) = Awaiting(leg_id)
                /\ Len(response'.ret.ids) = Cardinality(Awaiting(leg_id))
          /\ IsCall("GET /parcels", [legId |-> leg_id]) =>
                /\ response'.ret.status = 200
                /\ SeqToSet(response'.ret.body.parcelIds) = Awaiting(leg_id)
                /\ Len(response'.ret.body.parcelIds) = Cardinality(Awaiting(leg_id))]_vars

\* the queue of the second leg was asked for while one parcel waited for it
\* and the other had left on every leg of its route
C13_Witness ==
    /\ response.op = "get_parcels_for_leg"
    /\ \E id \in DOMAIN parcels, other \in DOMAIN parcels :
          /\ taken[id] = 1 /\ taken[other] = Len(parcels[other].route.leg_ids)
          /\ response.args.leg_id = parcels[id].route.leg_ids[2]
          /\ response.ret.ids = <<id>>

\* C14: a parcel on a route of two legs or more, before any departure, is in
\* the queue of the first leg and not in that of the second; a departure that
\* succeeds on a leg takes it out of that leg's queue and puts it into the
\* queue of the leg that follows on the route, if there is one.
C14_FirstLegBeforeDeparture ==
    \A id \in DOMAIN parcels :
        (Len(parcels[id].route.leg_ids) >= 2 /\ taken[id] = 0) =>
            /\ InQueue(id, parcels[id].route.leg_ids[1])
            /\ ~InQueue(id, parcels[id].route.leg_ids[2])

DepartureSucceeds(id, leg_id) ==
    \/ IsCall("record_departure", [id |-> id, leg_id |-> leg_id]) /\ response'.ret = Returns("True")
    \/ IsCall("POST /take", [parcelId |-> id, leg |-> leg_id]) /\ response'.ret.status = 200

C14_DepartureFlips ==
    \A id \in DOMAIN parcels, leg_id \in RequestLegIds :
        (DepartureSucceeds(id, leg_id) /\ parcels' # parcels) =>
            /\ InQueue(id, leg_id)
            /\ ~InQueue(id, leg_id)'
            /\ \A i \in 1..(Len(parcels[id].route.leg_ids) - 1) :
                  parcels[id].route.leg_ids[i] = leg_id =>
                      InQueue(id, parcels[id].route.leg_ids[i + 1])'

C14_MembershipFlips == [](C14_FirstLegBeforeDeparture) /\ [][C14_DepartureFlips]_vars

\* two parcels wait for the first leg, then one leaves on it: it is in the
\* queue of the second leg while the other still waits for the first
C14_Witness ==
    /\ response.op = "record_departure" /\ response.ret = Returns("True")
    /\ \E id \in DOMAIN parcels, other \in DOMAIN parcels :
          /\ response.args.id = id /\ other # id
          /\ response.args.leg_id = parcels[id].route.leg_ids[1]
          /\ ParcelsForLeg(parcels[id].route.leg_ids[2]) = <<id>>
          /\ ParcelsForLeg(parcels[id].route.leg_ids[1]) = <<other>>

----------------------------------------------------------------------------
(* Histories *)

HistoryOperations ==
    {"pickup_parcel", "track_parcel", "get_parcels_for_leg", "record_departure",
     "record_arrival", "POST /pickup", "POST /track", "GET /parcels", "POST /take", "POST /put"}

\* C19: every departure, arrival, pickup, tracking and leg-queue operation
\* leaves each parcel's events, in their order, as the beginning of its events
\* afterwards.
C19_AppendOnly ==
    [][(now' = now /\ response'.op \in HistoryOperations) =>
          \A id \in DOMAIN parcels :
              /\ id \in DOMAIN parcels'
              /\ IsPrefix(parcels[id].history, parcels'[id].history)]_vars

\* a history of an arrival, a departure and a pickup was read by track_parcel
C19_Witness ==
    /\ response.op = "track_parcel" /\ response.ret.tag = "tuple"
    /\ Len(response.ret.history_entries) = 3
    /\ \E id \in DOMAIN parcels :
          /\ response.args.id = id /\ Len(parcels[id].history) = 3
          /\ parcels[id].history[1].type = "Arrival"
          /\ parcels[id].history[2].type = "Departure"
          /\ parcels[id].history[3].type = "Pickup"

PickupCount(history) == Cardinality({i \in 1..Len(history) : history[i].type = "Pickup"})

\* C20 as stated: a pickup request on a parcel whose history holds a Pickup
\* event leaves the history unchanged, and no history holds two Pickup events.
C20_PickupRequestUnchanged ==
    \A id \in DOMAIN parcels :
        (/\ HasEvent(parcels[id].history, "Pickup")
         /\ \/ IsCall("pickup_parcel", [id |-> id])
            \/ \E private_id \in PrivateIds :
                  Sha256(private_id) = id /\ IsCall("POST /pickup", [privateParcelId |-> private_id]))
            => parcels'[id].history = parcels[id].history

C20_SecondPickupRejected ==
    /\ [](\A id \in DOMAIN parcels : PickupCount(parcels[id].history) <= 1)
    /\ [][C20_PickupRequestUnchanged]_vars

----------------------------------------------------------------------------
(* Termination of the search, checked under SpecRouterFair *)

\* C18: once _find_cheapest_route has entered its while loop it returns, and
\* it leaves the loop only with an empty priority queue or by popping the
\* destination.
C18_LoopExit ==
    (rpc \in {"loop", "relax"} /\ rpc' = "done") =>
        \/ pq = {} /\ route' = None
        \/ current'.loc = parcel.to_location /\ route' = Route(current'.path)

C18_SearchTerminates ==
    /\ (rpc \in {"loop", "relax"}) ~> (rpc = "done")
    /\ [][C18_LoopExit]_vars

\* the destination was popped after a search through a catalog with parallel
\* legs and a cycle of legs that can carry the parcel, both ends of the cycle
\* expanded
C18_Witness ==
    /\ rpc = "done" /\ route.tag = "Route" /\ Len(route.legs) >= 2
    /\ \E i, j \in 1..Len(catalog) :
          /\ catalog[i].from_location = catalog[j].to_location
          /\ catalog[i].to_location = catalog[j].from_location
          /\ catalog[i].max_weight >= parcel.weight
          /\ catalog[j].max_weight >= parcel.weight
          /\ {catalog[i].from_location, catalog[i].to_location} \subseteq visited
    /\ \E i, j \in 1..Len(catalog) :
          /\ i # j
          /\ catalog[i].from_location = catalog[j].from_location
          /\ catalog[i].to_location = catalog[j].to_location

----------------------------------------------------------------------------
(* Claims on concurrent requests, checked under SpecThreads *)

DepartureOps == {"record_departure", "POST /take"}
ArrivalOps == {"record_arrival", "POST /put"}
Succeeded(th) ==
    th.pc = "done" /\ (th.ret = Returns("True") \/ th.ret = Http(200, [value |-> TRUE]))

\* C15 as stated: whatever the interleaving of departure requests on a parcel,
\* two requests naming the same leg never both append a Departure event, and
\* the Departure leg ids of the history are a prefix of the route.
C15_DeparturesAtomic ==
    /\ \A id \in DOMAIN parcels :
          IsPrefix(DepartureLegs(parcels[id].history), parcels[id].route.leg_ids)
    /\ \A t \in Threads, u \in Threads :
          (/\ t # u
           /\ threads[t].op \in DepartureOps /\ threads[u].op \in DepartureOps
           /\ threads[t].args = threads[u].args)
              => ~(Succeeded(threads[t]) /\ Succeeded(threads[u]))

\* the thread's request writes to the parcel
Touches(th, id) ==
    \/ th.op \in DepartureOps \cup ArrivalOps /\ th.args.id = id
    \/ th.op = "register_parcel" /\ th.args.public_id = id

\* C16: an arrival request on a registered parcel that no other request
\* running at the same time touches succeeds and leaves that parcel with
\* exactly one event, the Arrival at the request's location; until it has
\* appended, the parcel's history is empty.
C16_ArrivalsIndependent ==
    \A t \in Threads :
        LET th == threads[t] IN
        (/\ th.op \in ArrivalOps /\ Registered(th.args.id)
         /\ \A u \in Threads \ {t} : ~Touches(threads[u], th.args.id))
            => IF th.pc = "done"
               THEN /\ Succeeded(th)
                    /\ Len(parcels[th.args.id].history) = 1
                    /\ parcels[th.args.id].history[1].type = "Arrival"
                    /\ parcels[th.args.id].history[1].to = th.args.location
               ELSE parcels[th.args.id].history = <<>>

\* two arrivals on two parcels at two locations have both returned, the first
\* to be appended stamped before the other
C16_Witness ==
    \E t \in Threads, u \in Threads :
        /\ threads[t].op = "record_arrival" /\ threads[u].op = "POST /put"
        /\ Succeeded(threads[t]) /\ Succeeded(threads[u])
        /\ threads[t].args.id # threads[u].args.id
        /\ threads[t].args.location # threads[u].args.location
        /\ parcels[threads[t].args.id].history[1].timestamp
              # parcels[threads[u].args.id].history[1].timestamp

\* a parcel as register_parcel constructs it: every field of the dataclass,
\* with a route of the router client
FullyConstructed(p) ==
    /\ DOMAIN p = ParcelFields
    /\ p.route.leg_ids # <<>>
    /\ \E key \in DOMAIN PredefinedRoutes :
          /\ p.route.leg_ids = PredefinedRoutes[key].leg_ids
          /\ p.route.time = PredefinedRoutes[key].time

\* C17: whatever the interleaving of register_parcel with find_by_id and
\* get_parcels_for_leg, every id the registry maps is mapped to a fully
\* constructed parcel, find_by_id returns None or such a parcel, the ids
\* get_parcels_for_leg walks through are mapped, and an id that becomes mapped
\* is mapped to a parcel with a valid route and an empty history.
C17_ReadersSeeWholeParcels ==
    /\ \A id \in DOMAIN parcels : FullyConstructed(parcels[id])
    /\ \A t \in Threads :
          /\ (threads[t].op = "find_by_id" /\ threads[t].pc = "done") =>
                (threads[t].ret = None \/ FullyConstructed(threads[t].ret))
          /\ threads[t].pc = "for" =>
                \A i \in 1..Len(threads[t].local.todo) :
                    threads[t].local.todo[i] \in DOMAIN parcels

C17_FirstVisibleEmpty ==
    \A id \in PublicIds :
        (id \notin DOMAIN parcels /\ id \in DOMAIN parcels') =>
            (FullyConstructed(parcels'[id]) /\ parcels'[id].history = <<>>)

----------------------------------------------------------------------------
(* Events requested one at a time, checked under SpecParcels *)

Last(history) == history[Len(history)]
\* the history grew by one event and only this parcel changed
OneEventAppended(id) ==
    /\ Len(parcels'[id].history) = Len(parcels[id].history) + 1
    /\ IsPrefix(parcels[id].history, parcels'[id].history)
    /\ \A other \in DOMAIN parcels \ {id} : parcels'[other] = parcels[other]
    /\ DOMAIN parcels' = DOMAIN parcels

\* C21: an arrival request (record_arrival, POST /put) on a registered parcel
\* succeeds whatever its route and history, and appends one Arrival event
\* with the location given, as the last event.
C21_ArrivalAlwaysAppends ==
    [][\A id \in DOMAIN parcels, location \in ArrivalLocations :
          /\ IsCall("record_arrival", [id |-> id, location |-> location]) =>
                /\ response'.ret = Returns("True")
                /\ OneEventAppended(id)
                /\ Last(parcels'[id].history).type = "Arrival"
                /\ Last(parcels'[id].history).to = location
          /\ IsCall("POST /put", [parcelId |-> id, location |-> location]) =>
                /\ response'.ret.status = 200
                /\ OneEventAppended(id)
                /\ Last(parcels'[id].history).type = "Arrival"
                /\ Last(parcels'[id].history).to = location]_vars

\* an arrival at a location that is no end of the route was appended after a
\* pickup
C21_Witness ==
    /\ response.op = "POST /put" /\ response.ret.status = 200
    /\ response.args.location = "IntermediateHub"
    /\ LET h == parcels[response.args.parcelId].history
       IN /\ Len(h) >= 2
          /\ Last(h).type = "Arrival" /\ Last(h).to = "IntermediateHub"
          /\ h[Len(h) - 1].type = "Pickup"

\* C22: a pickup request (pickup_parcel, POST /pickup) on a registered parcel
\* without a Pickup event succeeds and appends one Pickup event, however many
\* legs of the route the parcel has left on.
C22_PickupAnyTime ==
    [][\A id \in DOMAIN parcels :
          ~HasEvent(parcels[id].history, "Pickup") =>
             /\ IsCall("pickup_parcel", [id |-> id]) =>
                   /\ response'.ret = Returns("True")
                   /\ OneEventAppended(id)
                   /\ Last(parcels'[id].history).type = "Pickup"
             /\ \A private_id \in PrivateIds :
                   (Sha256(private_id) = id
                      /\ IsCall("POST /pickup", [privateParcelId |-> private_id])) =>
                         /\ response'.ret.status = 200
                         /\ OneEventAppended(id)
                         /\ Last(parcels'[id].history).type = "Pickup"]_vars

\* a parcel was picked up after the first of its two legs
C22_Witness ==
    /\ response.op = "pickup_parcel" /\ response.ret = Returns("True")
    /\ LET id == response.args.id
       IN /\ taken[id] = 1 /\ Len(parcels[id].route.leg_ids) = 2
          /\ Last(parcels[id].history).type = "Pickup"
          /\ PickupCount(parcels[id].history) = 1

\* C23 as stated: a departure request (record_departure, POST /take) on a
\* registered parcel naming its next expected leg succeeds and appends one
\* Departure event with that leg id, as the last event.
C23_NextLegDeparts ==
    [][\A id \in DOMAIN parcels, leg_id \in RequestLegIds :
          _get_next_leg_id(parcels[id]) = leg_id =>
             /\ IsCall("record_departure", [id |-> id, leg_id |-> leg_id]) =>
                   /\ response'.ret = Returns("True")
                   /\ OneEventAppended(id)
                   /\ Last(parcels'[id].history) = DepartureEvent(now, leg_id)
             /\ IsCall("POST /take", [parcelId |-> id, leg |-> leg_id]) =>
                   /\ response'.ret.status = 200
                   /\ OneEventAppended(id)
                   /\ Last(parcels'[id].history) = DepartureEvent(now, leg_id)]_vars

\* C24: pickup, track, departure and arrival requests for an id the registry
\* does not hold return the not-found outcome (False or None; 404) and leave
\* the registry as it was.
C24_UnknownIdNotFound ==
    [][/\ \A id \in PublicIds \ DOMAIN parcels :
            /\ IsCall("pickup_parcel", [id |-> id]) => response'.ret = Returns("False")
            /\ IsCall("track_parcel", [id |-> id]) => response'.ret = None
            /\ \A location \in ArrivalLocations :
                  /\ IsCall("record_arrival", [id |-> id, location |-> location]) =>
                        response'.ret = Returns("False")
                  /\ IsCall("POST /put", [parcelId |-> id, location |-> location]) =>
                        response'.ret.status = 404
            /\ \A leg_id \in RequestLegIds :
                  /\ IsCall("record_departure", [id |-> id, leg_id |-> leg_id]) =>
                        response'.ret = None
                  /\ IsCall("POST /take", [parcelId |-> id, leg |-> leg_id]) =>
                        response'.ret.status = 404
       /\ \A private_id \in PrivateIds :
            Sha256(private_id) \notin DOMAIN parcels =>
               /\ IsCall("POST /pickup", [privateParcelId |-> private_id]) =>
                     response'.ret.status = 404
               /\ IsCall("POST /track", [privateParcelId |-> private_id]) =>
                     response'.ret.status = 404
       /\ (now' = now /\ response'.ret \in {None, Returns("False")}) => parcels' = parcels
       /\ (now' = now /\ response'.ret.tag = "http" /\ response'.ret.status = 404) =>
               parcels' = parcels]_vars

\* POST /take for an id the registry does not hold was answered 404 while the
\* registry held another parcel with events
C24_Witness ==
    /\ response.op = "POST /take" /\ response.ret.status = 404
    /\ ~Registered(response.args.parcelId)
    /\ \E id \in DOMAIN parcels : Len(parcels[id].history) >= 2

----------------------------------------------------------------------------
(* Registration requests, checked under SpecParcels *)

\* a weight or a dimension that is not positive, or a negative declared value
InvalidRegistration(req) ==
    \/ req.weight <= 0 \/ req.length <= 0 \/ req.width <= 0 \/ req.height <= 0
    \/ SumValues(req.items) < 0 \/ \E i \in 1..Len(req.items) : req.items[i].value < 0

\* the outcomes that signal invalid input
RejectsInput(ret) ==
    \/ ret.tag = "raise" /\ ret.exception \in {"ValueError", "ValidationError"}
    \/ ret.tag = "http" /\ ret.status = 422
    \/ ret.tag = "http" /\ ret.status = 400 /\ ret.body.detail = "Invalid input"

\* C25 as stated: register_parcel (and POST /register) with a non-positive
\* weight or dimension or a negative declared value is rejected as invalid
\* input, and nothing is stored.
C25_InvalidInputRejected ==
    [][\A req \in RegisterRequests :
          (InvalidRegistration(req)
             /\ (IsCall("register_parcel", req) \/ IsCall("POST /register", req))) =>
                (RejectsInput(response'.ret) /\ parcels' = parcels)]_vars

\* C30 as stated: registering a parcel from CityA to CityB with weight 5 and
\* items worth 1000 returns cost 160, and the parcel is stored with a route of
\* one leg, which tracking reports as totalStops.
C30_CityAToCityB ==
    [][\A req \in RegisterRequests :
          (/\ <<Lower(req.from_location), Lower(req.to_location)>> = <<"citya", "cityb">>
           /\ req.weight = 5 /\ SumValues(req.items) = 1000
           /\ IsCall("POST /register", req)) =>
              /\ response'.ret.status = 200
              /\ response'.ret.body.cost = 160
              /\ req.public_id \in DOMAIN parcels'
              /\ Len(parcels'[req.public_id].route.leg_ids) = 1]_vars

----------------------------------------------------------------------------
(* Inputs and totals of compute_route, checked under SpecRouter *)

\* C26: compute_route returns None for every request with an empty origin or
\* destination, a weight <= 0 or a value < 0, without having started the
\* search: no queue, no costs, no location expanded, no route.
C26_InvalidRejectedBeforeSearch ==
    (Returned /\ ~ValidRequest) =>
        /\ result = None
        /\ route = NotReturned
        /\ pq = {} /\ min_costs = <<>> /\ visited = {}

\* a request of weight 0 between two locations joined by legs was answered None
C26_Witness ==
    /\ Returned /\ result = None
    /\ parcel.weight = 0 /\ parcel.value >= 0
    /\ parcel.from_location # "" /\ parcel.to_location # ""
    /\ parcel.from_location # parcel.to_location
    /\ AdmissiblePaths # {}

\* C28: the time of a route compute_route returns is the sum of the times of
\* the legs it lists.
C28_TimeIsSumOfLegTimes ==
    (Returned /\ result.tag = "LegList") =>
        result.time = PathTime(LegsOf(result.legs))

\* a route of two legs or more with different times was returned
C28_Witness ==
    /\ Returned /\ result.tag = "LegList" /\ Len(result.legs) >= 2
    /\ LegById(result.legs[1]).time # LegById(result.legs[2]).time
    /\ result.time = LegById(result.legs[1]).time + LegById(result.legs[2]).time
                     + (IF Len(result.legs) = 3 THEN LegById(result.legs[3]).time ELSE 0)

\* C29: for every leg of the catalog and the weight and value of the request,
\* Leg.cost is base_cost + weight_factor * weight + value_factor * value when
\* weight <= max_weight and infinite when weight > max_weight; a cost the
\* search writes for a location is the cost of the popped entry plus that sum.
C29_CostOfCatalogLegs ==
    \A i \in 1..Len(catalog) :
        LET leg == catalog[i] IN
        /\ parcel.weight <= leg.max_weight =>
              LegCost(leg, parcel.weight, parcel.value)
                 = leg.base_cost + leg.weight_factor * parcel.weight
                                 + leg.value_factor * parcel.value
        /\ parcel.weight > leg.max_weight =>
              LegCost(leg, parcel.weight, parcel.value) = Inf

C29_RelaxAddsLegCost ==
    (rpc = "relax" /\ min_costs' # min_costs) =>
        LET leg == LOCATION_INDEX(catalog, current.loc)[leg_i]
        IN /\ parcel.weight <= leg.max_weight
           /\ min_costs'[leg.to_location]
                 = current.cost + leg.base_cost + leg.weight_factor * parcel.weight
                                + leg.value_factor * parcel.value

C29_LegCostFormula == [](C29_CostOfCatalogLegs) /\ [][C29_RelaxAddsLegCost]_vars

\* the search has taken a leg filled exactly to its capacity while another
\* leg of the catalog was too small
C29_Witness ==
    /\ ValidRequest
    /\ \E i, j \in 1..Len(catalog) :
          /\ catalog[i].max_weight = parcel.weight
          /\ catalog[i].from_location = parcel.from_location
          /\ catalog[i].to_location \in DOMAIN min_costs
          /\ min_costs[catalog[i].to_location]
                = catalog[i].base_cost + catalog[i].weight_factor * parcel.weight
                                       + catalog[i].value_factor * parcel.value
          /\ catalog[j].max_weight < parcel.weight

----------------------------------------------------------------------------
(* Two calls with the same arguments, checked under SpecRouterTwice *)

----------------------------------------------------------------------------
(* Tracking, checked under SpecParcels *)

\* the message of each kind of event
Message(event) ==
    CASE event.type = "Arrival" -> <<"Arrived at ", event.to>>
      [] event.type = "Departure" -> <<"Departed on leg ", event.leg_id>>
      [] event.type = "Pickup" -> <<"Parcel picked up at final destination">>

\* C31: tracking a parcel (track_parcel, POST /track) reports as total stops
\* the number of legs of its route, and no step changes the route of a parcel.
C31_TotalStopsIsRouteLength ==
    [][\A id \in DOMAIN parcels :
          /\ id \in DOMAIN parcels' /\ parcels'[id].route = parcels[id].route
          /\ IsCall("track_parcel", [id |-> id]) =>
                response'.ret.total_stops = Len(parcels[id].route.leg_ids)
          /\ \A private_id \in PrivateIds :
                (Sha256(private_id) = id
                   /\ IsCall("POST /track", [privateParcelId |-> private_id])) =>
                      response'.ret.body.totalStops = Len(parcels[id].route.leg_ids)]_vars

\* POST /track answered two stops for a parcel that had left on both legs of
\* its route and was picked up
C31_Witness ==
    /\ response.op = "POST /track" /\ response.ret.status = 200
    /\ response.ret.body.totalStops = 2
    /\ LET id == Sha256(response.args.privateParcelId)
       IN /\ taken[id] = 2
          /\ Last(parcels[id].history).type = "Pickup"

\* C32: tracking returns one entry per event of the history, in the order of
\* the events, each with the timestamp of its event and the message of its
\* kind.
C32_TimelineFollowsHistory ==
    [][\A id \in DOMAIN parcels :
          LET h == parcels[id].history IN
          /\ IsCall("track_parcel", [id |-> id]) =>
                response'.ret.history_entries =
                    [i \in 1..Len(h) |-> <<h[i].timestamp, Message(h[i])>>]
          /\ \A private_id \in PrivateIds :
                (Sha256(private_id) = id
                   /\ IsCall("POST /track", [privateParcelId |-> private_id])) =>
                      response'.ret.body.history =
                          [i \in 1..Len(h) |->
                              [timestamp |-> h[i].timestamp, message |-> Message(h[i])]]]_vars

\* a departure, an arrival and a pickup, not all at the same time, were
\* reported by track_parcel in that order
C32_Witness ==
    /\ response.op = "track_parcel" /\ response.ret # None
    /\ Len(response.ret.history_entries) = 3
    /\ response.ret.history_entries[1][2] = <<"Departed on leg ", "leg-003">>
    /\ response.ret.history_entries[2][2] = <<"Arrived at ", "IntermediateHub">>
    /\ response.ret.history_entries[3][2] = <<"Parcel picked up at final destination">>
    /\ response.ret.history_entries[1][1] < response.ret.history_entries[3][1]

----------------------------------------------------------------------------
(* Frame of the operations, checked under SpecParcels *)

EventOperations ==
    {"pickup_parcel", "record_departure", "record_arrival", "POST /pickup", "POST /take", "POST /put"}
ReadOperations == {"track_parcel", "get_parcels_for_leg", "POST /track", "GET /parcels"}

\* the parcel an event operation is aimed at
Target(r) ==
    CASE r.op \in {"pickup_parcel", "record_departure", "record_arrival"} -> r.args.id
      [] r.op \in {"POST /take", "POST /put"} -> r.args.parcelId
      [] r.op = "POST /pickup" -> Sha256(r.args.privateParcelId)
Accepted(r) == r.ret = Returns("True") \/ (r.ret.tag = "http" /\ r.ret.status = 200)

\* C34: a departure, arrival or pickup operation leaves the set of ids and,
\* of every parcel, all but the history as they were; when it is accepted the
\* history of its parcel grows by one event and no other history changes;
\* when it is not, no history changes.
C34_OnlyTargetHistoryGrows ==
    [][(now' = now /\ response'.op \in EventOperations) =>
          /\ DOMAIN parcels' = DOMAIN parcels
          /\ \A id \in DOMAIN parcels :
                [parcels'[id] EXCEPT !.history = parcels[id].history] = parcels[id]
          /\ IF Accepted(response')
             THEN /\ Target(response') \in DOMAIN parcels
                  /\ OneEventAppended(Target(response'))
             ELSE parcels' = parcels]_vars

\* an event was accepted for one parcel while the other had events of its own
C34_Witness ==
    /\ response.op \in EventOperations /\ Accepted(response)
    /\ \E other \in DOMAIN parcels \ {Target(response)} :
          /\ parcels[other].history # <<>>
          /\ parcels[other].history # parcels[Target(response)].history
          /\ Len(parcels[Target(response)].history) >= 2

\* C35: tracking and the leg queue (with the lookup and the next-leg
\* projection they use) leave the ids, their order and every parcel as they
\* were.
C35_ReadsChangeNothing ==
    [][(now' = now /\ response'.op \in ReadOperations) =>
          (parcels' = parcels /\ order' = order /\ taken' = taken)]_vars

\* the leg queue was read and held a parcel that had events
C35_Witness ==
    /\ response.op = "get_parcels_for_leg"
    /\ response.ret.ids # <<>>
    /\ parcels[response.ret.ids[1]].history # <<>>

\* C36 as stated: register_parcel (POST /register) of a routable request under
\* an id the registry holds replaces the parcel: afterwards the id maps to a
\* parcel with the new route and attributes and an empty history, and the
\* other parcels are as they were.
C36_LastWriteWins ==
    [][\A req \in RegisterRequests :
          (/\ Routable(req) /\ Registered(req.public_id)
           /\ (IsCall("register_parcel", req) \/ IsCall("POST /register", req))) =>
              /\ parcels'[req.public_id] = NewParcel(req, RouteFor(req))
              /\ \A other \in DOMAIN parcels \ {req.public_id} :
                    parcels'[other] = parcels[other]]_vars

\* C39 as stated: for every parcel, Parcel.get_next_leg_id and
\* ParcelRegistry._get_next_leg_id give the same leg id or none.
C39_ProjectionsAgree ==
    \A id \in DOMAIN parcels :
        get_next_leg_id(parcels[id]) = _get_next_leg_id(parcels[id])

\* C40: no step takes an id off the registry, and tracking an id the registry
\* holds never returns not-found.
C40_IdsOnlyGrow ==
    [][/\ DOMAIN parcels \subseteq DOMAIN parcels'
       /\ \A id \in DOMAIN parcels :
            /\ IsCall("track_parcel", [id |-> id]) => response'.ret # None
            /\ \A private_id \in PrivateIds :
                  (Sha256(private_id) = id
                     /\ IsCall("POST /track", [privateParcelId |-> private_id])) =>
                        response'.ret.status = 200]_vars

\* both parcels are still found after a pickup and other events
C40_Witness ==
    /\ response.op = "POST /track" /\ response.ret.status = 200
    /\ Cardinality(DOMAIN parcels) = 2
    /\ \E id \in DOMAIN parcels : HasEvent(parcels[id].history, "Pickup")
    /\ \E id \in DOMAIN parcels : HasEvent(parcels[id].history, "Departure")

----------------------------------------------------------------------------
(* Shape of the routes, checked under SpecRouter *)

\* legs lead from origin to end, each leg starting where the one before ends
Chain(origin, legs, end) ==
    /\ legs # <<>> => legs[1].from_location = origin
    /\ \A i \in 1..(Len(legs) - 1) : legs[i + 1].from_location = legs[i].to_location
    /\ PathEnd(origin, legs) = end

\* the locations a path passes through, the origin first
Stops(origin, legs) == <<origin>> \o [i \in 1..Len(legs) |-> legs[i].to_location]
NoRepeat(seq) == \A i, j \in 1..Len(seq) : seq[i] = seq[j] => i = j

\* no leg twice and no location twice
Simple(origin, legs) ==
    /\ NoRepeat([i \in 1..Len(legs) |-> legs[i].id])
    /\ NoRepeat(Stops(origin, legs))

\* C37: every non-empty route _find_cheapest_route returns is a chain: its
\* first leg starts at the origin, each following leg starts where the one
\* before ends, and the last leg ends at the destination.
C37_RouteIsChain ==
    (route.tag = "Route" /\ route.legs # <<>>) =>
        Chain(parcel.from_location, route.legs, parcel.to_location)

\* a route of three legs was returned
C37_Witness ==
    /\ Returned /\ route.tag = "Route"
    /\ Len(route.legs) = 3

\* C38: no route _find_cheapest_route returns, and no path it queues, holds
\* the same leg twice or passes through the same location twice, the origin
\* included.
C38_RouteIsSimple ==
    /\ route.tag = "Route" => Simple(parcel.from_location, route.legs)
    /\ rpc \in {"loop", "relax"} =>
          \A e \in pq : Simple(parcel.from_location, e.path)

\* a route of two legs was returned after the search relaxed a leg that leads
\* back to the origin from a location of the route
C38_Witness ==
    /\ Returned /\ route.tag = "Route"
    /\ Len(route.legs) = 2
    /\ \E i \in 1..Len(catalog) :
          /\ catalog[i].to_location = parcel.from_location
          /\ catalog[i].from_location = route.legs[1].to_location
          /\ ~TooHeavy(catalog[i], parcel.weight)

----------------------------------------------------------------------------
(* Rendering twice, checked under SpecTimeline *)

\* C33: when the timeline of a parcel is rendered (track_parcel, POST /track)
\* and was rendered before with no change of the parcel's history since, the
\* entries are the same as before, whatever was done to other parcels and
\* however much time went by in between.
C33_RenderTwiceSame ==
    [][SameParcel => RenderedNow.entries = timeline.entries]_vars

\* a timeline of two entries was rendered a second time, by POST /track,
\* after the clock and the other parcel's history had moved on
C33_Witness ==
    /\ timeline # NotReturned /\ timeline.again
    /\ Len(timeline.entries) = 2
    /\ response.op = "POST /track"
    /\ Sha256(response.args.privateParcelId) = timeline.id
    /\ now > timeline.entries[2][1]
    /\ \E other \in DOMAIN parcels \ {timeline.id} :
          /\ parcels[other].history # <<>>
          /\ Last(parcels[other].history).timestamp > timeline.entries[2][1]

====
